---- MODULE Spec2Model ----
(***************************************************************************)
(* A model of backend/modal/data/download_multiwoz.py: MultiWOZDownloader. *)
(*                                                                         *)
(* The filesystem below extract_dir (data_dir/"multiwoz_2.2") is a function*)
(* from paths (sequences of names relative to extract_dir, <<>> being      *)
(* extract_dir itself) to nodes; a path outside its domain does not exist. *)
(* The staged archive data_dir/"MultiWOZ_2.2.zip" is the variable zip.     *)
(***************************************************************************)
EXTENDS Integers, Sequences, FiniteSets, TLC

\* ------------------------------------------------------------------ bounds
\* Most members an archive of the model holds.
MaxMembers == 3
\* Most download_multiwoz invocations in one behaviour.
MaxCalls == 2
\* Most records in one partition of the fallback source.
MaxRecords == 2
\* Most elements in the JSON array of a dialogue file verify_dataset samples.
MaxItems == 2

\* ------------------------------------------------------------- file values
\* What a file holds, as json.load sees it: t is "array" (a JSON array of
\* items), "scalar" (valid JSON, not an array), "badjson" (text that is not
\* JSON, the empty file included), "binary" (bytes that are not UTF-8),
\* "unreadable" (open() raises OSError); "none" is a directory's.
NoContent == [t |-> "none", items |-> <<>>]
Content(t, items) == [t |-> t, items |-> items]

\* One element of a JSON array. e: "obj" (an object), "int", "null", "str" (a
\* string without the text services), "strsvc" (a string holding it).
\* For an object, sk says what its "services" key holds: "absent", "list" (of
\* the strings sv), "str" (a string of the characters sv), "int" (a number),
\* "nested" (a list holding a list).
\* ser is FALSE for a record json.dump cannot serialise. id is the record's
\* dialogue_id: the partition it comes from and its place there (<<"", 0>>
\* for an element that is no record of the fallback source).
Elem(id, e, sk, sv, ser) == [id |-> id, e |-> e, sk |-> sk, sv |-> sv, ser |-> ser]
NoId == <<"", 0>>
Obj(sk, sv) == Elem(NoId, "obj", sk, sv, TRUE)

DirNode == [k |-> "dir", c |-> NoContent]
FileNode(c) == [k |-> "file", c |-> c]

\* ------------------------------------------------------------ path algebra
Root == <<>>
SPLITS == <<"train", "dev", "test">>
DataSubdir == <<"data">>
DialogueFile == "dialogues_001.json"

Parent(p) == SubSeq(p, 1, Len(p) - 1)
IsPrefix(p, q) == Len(p) <= Len(q) /\ SubSeq(q, 1, Len(p)) = p
Exists(fs, p) == p \in DOMAIN fs
IsDir(fs, p) == p \in DOMAIN fs /\ fs[p].k = "dir"
IsFile(fs, p) == p \in DOMAIN fs /\ fs[p].k = "file"
\* The entries directly under p (Path.iterdir).
Children(fs, p) == {q \in DOMAIN fs : Len(q) = Len(p) + 1 /\ IsPrefix(p, q)}
\* Every path at or below p.
Subtree(fs, p) == {q \in DOMAIN fs : IsPrefix(p, q)}
Files(fs) == {p \in DOMAIN fs : fs[p].k = "file"}

NoFs == [p \in {} |-> DirNode]
\* fs with node n at path p (created or replaced).
Put(fs, p, n) == [q \in DOMAIN fs \cup {p} |-> IF q = p THEN n ELSE fs[q]]
\* fs without the paths of S.
Remove(fs, S) == [q \in DOMAIN fs \ S |-> fs[q]]

Ok(fs) == [fs |-> fs, err |-> "ok"]
Fail(fs, e) == [fs |-> fs, err |-> e]

\* os.makedirs(p) and Path.mkdir(parents=True, exist_ok=True): every missing
\* directory from extract_dir's parent down to p. data_dir exists (__init__
\* creates it), so only a file in the way fails: FileExistsError when p
\* itself is one, NotADirectoryError when a directory above p is.
MakeDirs(fs, p) ==
    LET pre == {SubSeq(p, 1, n) : n \in 0..Len(p)}
    IN IF IsFile(fs, p) THEN Fail(fs, "FileExistsError")
       ELSE IF \E q \in pre : IsFile(fs, q)
       THEN Fail(fs, "NotADirectoryError")
       ELSE Ok([q \in DOMAIN fs \cup pre |-> IF q \in DOMAIN fs THEN fs[q] ELSE DirNode])

\* mkdir(exist_ok=True) of one directory whose parent exists.
MkdirExistOk(fs, p) ==
    IF IsDir(fs, p) THEN Ok(fs)
    ELSE IF IsFile(fs, p) THEN Fail(fs, "FileExistsError")
    ELSE Ok(Put(fs, p, DirNode))

\* ---------------------------------------------------------------- archives
\* What an intact member file holds: one dialogue with two services.
MemberContent == Content("array", <<Obj("list", <<"hotel", "train">>)>>)
\* What a member whose CRC fails leaves behind when its data fits one read
\* of the copy: the file was opened for writing and the read raised before
\* any data was copied.
BadCrcContent == Content("badjson", <<>>)
\* What such a member leaves behind when its data is longer than one read
\* and is not UTF-8: every chunk but the last was copied.
BadCrcPartial == Content("binary", <<>>)

\* A zip member: its path below the extraction directory, whether it is a
\* directory entry, whether its stored CRC matches its data, and (left) what
\* the copy has written of it when the CRC check raises.
Member(path, isdir, crc) ==
    [path |-> path, isdir |-> isdir, crc |-> crc, left |-> BadCrcContent]
\* A file member whose CRC fails after the chunks amounting to left were
\* written.
LargeBadMember(path, left) ==
    [path |-> path, isdir |-> FALSE, crc |-> FALSE, left |-> left]

\* The members archives are built from, in the order they are stored.
MemberPool ==
    << Member(<<"train", DialogueFile>>, FALSE, TRUE),
       Member(<<"dev", DialogueFile>>, FALSE, TRUE),
       Member(<<"test", DialogueFile>>, FALSE, TRUE),
       Member(<<"data", "train", DialogueFile>>, FALSE, TRUE),
       Member(<<"data", "dev", DialogueFile>>, FALSE, TRUE),
       Member(<<"data", "test", DialogueFile>>, FALSE, TRUE),
       Member(<<"data">>, FALSE, TRUE),
       Member(<<"dev", "dialogues_002.json">>, FALSE, FALSE),
       LargeBadMember(<<"dev", "dialogues_002.json">>, BadCrcPartial) >>

RECURSIVE PickSeq(_, _)
\* The members of MemberPool whose index is in S, from index i on, in order.
PickSeq(S, i) ==
    IF i > Len(MemberPool) THEN <<>>
    ELSE IF i \in S THEN <<MemberPool[i]>> \o PickSeq(S, i + 1)
    ELSE PickSeq(S, i + 1)

\* Every archive of at most MaxMembers members.
Archives ==
    {PickSeq(S, 1) : S \in {T \in SUBSET (1..Len(MemberPool)) : Cardinality(T) <= MaxMembers}}

\* A piece of a response body or of a file. part 0 is the empty chunk b'',
\* part 1 the leading bytes every zip file shares, part 2 the rest of the zip
\* encoding of archive a, its central directory included.
Chunk(a, p) == [a |-> a, part |-> p]
EmptyChunk == Chunk(<<>>, 0)
ZipHead == Chunk(<<>>, 1)
ZipRest(a) == Chunk(a, 2)
\* The bytes of the zip file of archive a.
Encode(a) == <<ZipHead, ZipRest(a)>>
\* zipfile.ZipFile(zip_path) opens only a file that ends with its central
\* directory; anything shorter raises BadZipFile.
IsZip(bytes) == Len(bytes) = 2 /\ bytes[1].part = 1 /\ bytes[2].part = 2
Decode(bytes) == bytes[2].a

\* The staged archive data_dir/"MultiWOZ_2.2.zip".
NoZip == [k |-> "absent", bytes |-> <<>>]
ZipFile(bytes) == [k |-> "file", bytes |-> bytes]
ZipExists(z) == z.k # "absent"

\* ----------------------------------------------------------- download_file
\* What requests.get answers: status "ok", "http_error" (raise_for_status
\* raises) or "conn_error" (requests.get itself raises); the chunks
\* iter_content yields; failAt = i > 0 when iter_content raises instead of
\* yielding chunk i (Len + 1: after the last one), 0 when it never does.
Response(status, chunks, failAt) == [status |-> status, chunks |-> chunks, failAt |-> failAt]

\* download_file removing the destination when the stream breaks.
download_file_Unlinks(r, z) ==
    IF r.status = "conn_error" THEN [zip |-> z, err |-> "ConnectionError"]
    ELSE IF r.status = "http_error" THEN [zip |-> z, err |-> "HTTPError"]
    ELSE IF z.k = "dir" THEN [zip |-> z, err |-> "IsADirectoryError"]
    ELSE IF r.failAt # 0 THEN [zip |-> [k |-> "absent", bytes |-> <<>>],
                               err |-> "ChunkedEncodingError"]
    ELSE [zip |-> [k |-> "file", bytes |-> SelectSeq(r.chunks, LAMBDA c : c.part # 0)],
          err |-> "ok"]

\* z after download_file(url, destination) got response r, and how it ended.
download_file(r, z) ==
    IF r.status = "conn_error" THEN [zip |-> z, err |-> "ConnectionError"]
    ELSE IF r.status = "http_error" THEN [zip |-> z, err |-> "HTTPError"]
    ELSE IF z.k = "dir" THEN [zip |-> z, err |-> "IsADirectoryError"]
    ELSE LET n == IF r.failAt = 0 THEN Len(r.chunks) ELSE r.failAt - 1
             written == SelectSeq(SubSeq(r.chunks, 1, n), LAMBDA c : c.part # 0)
         IN [zip |-> ZipFile(written),
             err |-> IF r.failAt = 0 THEN "ok" ELSE "ChunkedEncodingError"]

\* ------------------------------------------------------------- extract_zip
\* ZipFile._extract_member: one member written below extract_dir.
ExtractMember(fs, m) ==
    LET up == Parent(m.path)
        mk == IF Exists(fs, up) THEN Ok(fs) ELSE MakeDirs(fs, up)
    IN IF mk.err # "ok" THEN mk
       ELSE IF m.isdir
       THEN IF IsDir(mk.fs, m.path) THEN mk
            ELSE IF ~IsDir(mk.fs, up) THEN Fail(mk.fs, "NotADirectoryError")
            ELSE IF IsFile(mk.fs, m.path) THEN Fail(mk.fs, "FileExistsError")
            ELSE Ok(Put(mk.fs, m.path, DirNode))
       ELSE IF ~IsDir(mk.fs, up) THEN Fail(mk.fs, "NotADirectoryError")
       ELSE IF IsDir(mk.fs, m.path) THEN Fail(mk.fs, "IsADirectoryError")
       ELSE IF m.crc THEN Ok(Put(mk.fs, m.path, FileNode(MemberContent)))
       ELSE Fail(Put(mk.fs, m.path, FileNode(m.left)), "BadZipFile")

\* ZipFile.getinfo(name): the last member of the archive that has the name
\* of m (a directory member's name ends with a slash, a file member's does
\* not).
GetInfo(ms, m) ==
    ms[CHOOSE j \in 1..Len(ms) :
          /\ ms[j].path = m.path /\ ms[j].isdir = m.isdir
          /\ \A k \in (j + 1)..Len(ms) : ~(ms[k].path = m.path /\ ms[k].isdir = m.isdir)]

RECURSIVE ExtractAll(_, _, _)
\* ZipFile.extractall: the names of the members from the i-th on, in order,
\* each extracted as the member getinfo finds under it, up to the first
\* that raises.
ExtractAll(fs, ms, i) ==
    IF i > Len(ms) THEN Ok(fs)
    ELSE LET r == ExtractMember(fs, GetInfo(ms, ms[i]))
         IN IF r.err # "ok" THEN r ELSE ExtractAll(r.fs, ms, i + 1)

\* The entries of data/ that the loop renames: those whose name is free
\* directly under extract_dir.
Movable(fs) == {q \in Children(fs, DataSubdir) : ~Exists(fs, <<q[2]>>)}
Colliding(fs) == Children(fs, DataSubdir) \ Movable(fs)

\* item.rename(target) for every movable item: each moved subtree loses its
\* leading "data".
MoveUp(fs) ==
    LET moved == UNION {Subtree(fs, q) : q \in Movable(fs)}
        kept == DOMAIN fs \ moved
    IN [p \in kept \cup {Tail(q) : q \in moved} |->
            IF p \in kept THEN fs[p] ELSE fs[<<"data">> \o p]]

\* Restructure without the rmdir of line 50: the emptied data/ stays.
Restructure_KeepsWrapper(fs) ==
    IF ~Exists(fs, DataSubdir) THEN Ok(fs)
    ELSE IF ~IsDir(fs, DataSubdir) THEN Fail(fs, "NotADirectoryError")
    ELSE Ok(MoveUp(fs))

\* Lines 40-51: the nested data/ directory is flattened into extract_dir.
Restructure(fs) ==
    IF ~Exists(fs, DataSubdir) THEN Ok(fs)
    ELSE IF ~IsDir(fs, DataSubdir) THEN Fail(fs, "NotADirectoryError")
    ELSE LET up == MoveUp(fs)
         IN IF Children(up, DataSubdir) # {}
            THEN Fail(up, "OSError: Directory not empty")
            ELSE Ok(Remove(up, {DataSubdir}))

\* extract_zip emptying extract_dir before it extracts.
extract_zip_FromScratch(z, fs) ==
    IF z.k = "absent" THEN Fail(fs, "FileNotFoundError")
    ELSE IF z.k = "dir" THEN Fail(fs, "IsADirectoryError")
    ELSE IF ~IsZip(z.bytes) THEN Fail(fs, "BadZipFile")
    ELSE LET x == ExtractAll(NoFs, Decode(z.bytes), 1)
         IN IF x.err # "ok" THEN x ELSE Restructure(x.fs)

\* extract_zip(zip_path, extract_dir): the filesystem it leaves and the
\* exception it raises ("ok": none).
extract_zip(z, fs) ==
    IF z.k = "absent" THEN Fail(fs, "FileNotFoundError")
    ELSE IF z.k = "dir" THEN Fail(fs, "IsADirectoryError")
    ELSE IF ~IsZip(z.bytes) THEN Fail(fs, "BadZipFile")
    ELSE LET x == ExtractAll(fs, Decode(z.bytes), 1)
         IN IF x.err # "ok" THEN x ELSE Restructure(x.fs)

\* -------------------------------------------------------- is_valid_dataset
\* Lines 82-87: every expected name exists under dataset_dir.
is_valid_dataset(fs) == \A i \in 1..Len(SPLITS) : Exists(fs, <<SPLITS[i]>>)

\* ------------------------------------------------ download_from_huggingface
\* What load_dataset("multi_woz_v22") answers: load is "ok" or "error" (the
\* import or the retrieval raises); parts maps each partition the source has
\* to its records, in source order.
Source(load, parts) == [load |-> load, parts |-> parts]
NoSource == Source("none", [h \in {} |-> <<>>])
HF_SPLITS == <<"train", "validation", "test">>
\* split_mapping without the remapping of validation to dev.
split_mapping_unmapped(h) == h

\* Lines 101-105.
split_mapping(h) ==
    CASE h = "train" -> "train"
      [] h = "validation" -> "dev"
      [] h = "test" -> "test"

Serialisable(recs) == \A i \in 1..Len(recs) : recs[i].ser

RECURSIVE WriteSplits(_, _, _)
\* Lines 107-125, from the i-th entry of split_mapping on.
WriteSplits(fs, parts, i) ==
    IF i > Len(HF_SPLITS) THEN Ok(fs)
    ELSE LET hf_split == HF_SPLITS[i]
             split_dir == <<split_mapping(hf_split)>>
             output_file == split_dir \o <<DialogueFile>>
         IN IF hf_split \notin DOMAIN parts THEN Fail(fs, "KeyError")
            ELSE LET mk == MkdirExistOk(fs, split_dir)
                 IN IF mk.err # "ok" THEN mk
                    ELSE IF IsDir(mk.fs, output_file)
                    THEN Fail(mk.fs, "IsADirectoryError")
                    ELSE IF ~Serialisable(parts[hf_split])
                    THEN Fail(Put(mk.fs, output_file, FileNode(Content("badjson", <<>>))),
                              "TypeError")
                    ELSE WriteSplits(
                             Put(mk.fs, output_file,
                                 FileNode(Content("array", parts[hf_split]))),
                             parts, i + 1)

\* download_from_huggingface(): the filesystem it leaves and the exception
\* it re-raises ("ok": none).
download_from_huggingface(src, fs) ==
    IF src.load # "ok" THEN Fail(fs, "ModuleNotFoundError")
    ELSE LET mk == MakeDirs(fs, Root)
         IN IF mk.err # "ok" THEN mk ELSE WriteSplits(mk.fs, src.parts, 1)

\* ---------------------------------------------------------- verify_dataset
\* The names split_dir.glob("dialogues_*.json") matches, among the names of
\* the model.
DialogueNames == {"dialogues_001.json", "dialogues_002.json"}
GlobDialogues(fs, split) == {q \in Children(fs, <<split>>) : q[2] \in DialogueNames}

\* Lines 160-171 on the sampled file: the exception that leaves
\* verify_dataset ("ok": none, or one the except clause caught), the
\* conversations counted and the services sampled.
Sampled(err, n, services) == [err |-> err, n |-> n, services |-> services]
\* SampleFile taking the services of every record of the array, not only of
\* data[0].
SampleFile_AllRecords(node) ==
    LET c == node.c
    IN IF node.k = "dir" \/ c.t # "array" THEN Sampled("ok", 0, {})
       ELSE Sampled("ok", Len(c.items),
                UNION {{c.items[i].sv[j] : j \in 1..Len(c.items[i].sv)} :
                          i \in 1..Len(c.items)})

SampleFile(node) ==
    LET c == node.c
        first == c.items[1]
    IN IF node.k = "dir" \/ c.t = "unreadable" \/ c.t = "badjson"
       THEN Sampled("ok", 0, {})
       ELSE IF c.t = "binary" THEN Sampled("UnicodeDecodeError", 0, {})
       ELSE IF c.t # "array" \/ c.items = <<>> THEN Sampled("ok", Len(c.items), {})
       ELSE IF first.e \in {"int", "null", "strsvc"} THEN Sampled("TypeError", 0, {})
       ELSE IF first.e # "obj" \/ first.sk = "absent" THEN Sampled("ok", Len(c.items), {})
       ELSE IF first.sk \in {"list", "str"}
       THEN Sampled("ok", Len(c.items), {first.sv[i] : i \in 1..Len(first.sv)})
       ELSE Sampled("TypeError", 0, {})

Stats(tc, tf, sf, acts, schema, services) ==
    [total_conversations |-> tc, total_dialogue_files |-> tf, splits_found |-> sf,
     has_dialog_acts |-> acts, has_schema |-> schema, sample_services |-> services]
NoStats == Stats(0, 0, <<>>, FALSE, FALSE, {})
Report(err, stats) == [err |-> err, stats |-> stats]

RECURSIVE VerifySplits(_, _, _, _)
\* Lines 149-174, from the i-th expected split on. first[split] is the file
\* glob lists first in that split.
VerifySplits(fs, first, i, st) ==
    IF i > Len(SPLITS) THEN Report("ok", st)
    ELSE LET split == SPLITS[i]
             dialogue_files == GlobDialogues(fs, split)
             s == IF dialogue_files = {} THEN Sampled("ok", 0, {})
                  ELSE SampleFile(fs[first[split]])
         IN IF ~IsDir(fs, <<split>>) THEN VerifySplits(fs, first, i + 1, st)
            ELSE IF s.err # "ok" THEN Report(s.err, NoStats)
            ELSE VerifySplits(fs, first, i + 1,
                     Stats(st.total_conversations + s.n,
                           st.total_dialogue_files + Cardinality(dialogue_files),
                           Append(st.splits_found, split),
                           FALSE, FALSE,
                           st.sample_services \cup s.services))

\* The services the loop of lines 149-174 collected in the set.
SampledServices(fs, first) == VerifySplits(fs, first, 1, NoStats).stats.sample_services
\* The lists list(S) of line 181 can be: every element of the set S once, in
\* the order the set's hashing gives, which the build decides.
Listings(S) ==
    {q \in [1..Cardinality(S) -> S] :
        \A i, j \in 1..Cardinality(S) : i # j => q[i] # q[j]}

\* verify_dataset without the sidecar checks of lines 177-178.
verify_dataset_NoSidecars(fs, first, listing) ==
    LET r == VerifySplits(fs, first, 1, NoStats)
    IN IF r.err # "ok" THEN r
       ELSE Report("ok", [r.stats EXCEPT !.sample_services = listing])

\* verify_dataset(dataset_dir): the exception it raises ("ok": none) and the
\* stats it returns; listing is the list line 181 makes of the set.
verify_dataset(fs, first, listing) ==
    LET r == VerifySplits(fs, first, 1, NoStats)
    IN IF r.err # "ok" THEN r
       ELSE Report("ok", [r.stats EXCEPT !.has_dialog_acts = Exists(fs, <<"dialog_acts.json">>),
                                         !.has_schema = Exists(fs, <<"schema.json">>),
                                         !.sample_services = listing])

\* The orders glob can list the dialogue files in, as far as dialogue_files[0]
\* goes: one matching file per split that has any.
FirstOf(fs, split) ==
    IF GlobDialogues(fs, split) = {} THEN {Root} ELSE GlobDialogues(fs, split)
FirstChoices(fs) ==
    {[split \in {"train", "dev", "test"} |->
        CASE split = "train" -> a [] split = "dev" -> b [] split = "test" -> c] :
        a \in FirstOf(fs, "train"), b \in FirstOf(fs, "dev"), c \in FirstOf(fs, "test")}

\* ------------------------------------------------------------------ inputs
\* The responses of the primary source: an archive streamed with an empty
\* chunk in it, whole or cut short, or no body at all.
Body(a) == <<ZipHead, EmptyChunk, ZipRest(a)>>
Responses ==
    {Response("ok", Body(a), 0) : a \in Archives}
    \cup {Response("ok", Body(<<>>), n) : n \in 1..4}
    \cup {Response(s, <<>>, 0) : s \in {"http_error", "conn_error"}}

\* Record i of partition h of the fallback source.
Rec(h, i, ser) == Elem(<<h, i>>, "obj", "list", <<"hotel">>, ser)
\* A partition of n records; its first is unserialisable when bad.
Partition(h, n, bad) == [i \in 1..n |-> Rec(h, i, ~(bad /\ i = 1))]
HfNames == {HF_SPLITS[i] : i \in 1..Len(HF_SPLITS)}
\* The fallback sources: unreachable; or holding the partitions P, each of at
\* most MaxRecords records, at most one of them (b) unserialisable.
Sources ==
    {Source("error", [h \in {} |-> <<>>])}
    \cup {Source("ok", [h \in P |-> Partition(h, n[h], h = b)]) :
            P \in {HfNames, HfNames \ {"validation"}},
            n \in [HfNames -> 0..MaxRecords],
            b \in HfNames \cup {"none"}}

\* extract_dir as a regular file.
FileRoot == [p \in {Root} |-> FileNode(Content("scalar", <<>>))]
\* The roots an invocation can start from: no extract_dir, a regular file in
\* its place, or a directory where each expected split is missing, an empty
\* directory or a regular file.
SplitStates == {"missing", "dir", "file"}
RootOf(st) ==
    LET present == {<<SPLITS[i]>> : i \in {j \in 1..Len(SPLITS) : st[j] # "missing"}}
    IN [p \in {Root} \cup present |->
            IF p # Root /\ \E j \in 1..Len(SPLITS) : p = <<SPLITS[j]>> /\ st[j] = "file"
            THEN FileNode(Content("scalar", <<>>))
            ELSE DirNode]
InitRoots == {NoFs, FileRoot} \cup {RootOf(st) : st \in [1..Len(SPLITS) -> SplitStates]}
\* The staged archives an invocation can find: none, an empty or cut-short
\* file of an interrupted run, or a whole archive.
InitZips ==
    {NoZip, ZipFile(<<>>), ZipFile(<<ZipHead>>)} \cup {ZipFile(Encode(a)) : a \in Archives}

\* The first elements a sampled array can have.
FirstElems ==
    {Elem(NoId, e, "absent", <<>>, TRUE) : e \in {"int", "null", "str", "strsvc", "obj"}}
    \cup {Obj("list", <<"hotel", "train">>), Obj("list", <<>>),
          Obj("str", <<"t", "v">>), Obj("int", <<>>), Obj("nested", <<>>)}
\* What follows the first element: records naming another service.
Padding(n) == [i \in 1..n |-> Obj("list", <<"taxi">>)]
\* What a dialogue file can hold; an array has one element or MaxItems.
FileContents ==
    {Content(t, <<>>) : t \in {"unreadable", "binary", "badjson", "scalar", "array"}}
    \cup {Content("array", <<first>> \o Padding(n - 1)) :
            first \in FirstElems, n \in {1, MaxItems}}
\* A split with two dialogue files: dialogues_001.json holds MemberContent,
\* dialogues_002.json what SecondContent says.
TwoShapes ==
    {Content("two", items) : items \in {<<>>, Padding(MaxItems)}}
    \cup {Content("two_bad", <<>>)}
SecondContent(shape) ==
    IF shape.t = "two" THEN Content("array", shape.items) ELSE Content("badjson", <<>>)
\* A file in a split directory that dialogues_*.json does not match.
OtherFile == "schema.json"
\* The roots verify_dataset is applied to: each expected split is missing, a
\* regular file, an empty directory, a directory with only a file that is no
\* dialogue file, or a directory with one or two dialogue files; each sidecar
\* file is there or not.
SplitShapes ==
    {Content(t, <<>>) : t \in {"missing", "file", "dir", "other"}}
    \cup FileContents \cup TwoShapes
Sidecars == {<<"dialog_acts.json">>, <<"schema.json">>}
VerifyRootOf(shape, side) ==
    LET names == {"train", "dev", "test"}
        present == {<<n>> : n \in {m \in names : shape[m].t # "missing"}}
        sampled == {<<n, DialogueFile>> : n \in {m \in names : shape[m] \in FileContents}}
        first == {<<n, DialogueFile>> : n \in {m \in names : shape[m] \in TwoShapes}}
        second == {<<n, "dialogues_002.json">> : n \in {m \in names : shape[m] \in TwoShapes}}
        other == {<<n, OtherFile>> : n \in {m \in names : shape[m].t = "other"}}
    IN [p \in {Root} \cup present \cup sampled \cup first \cup second \cup other \cup side |->
            IF p \in sampled THEN FileNode(shape[p[1]])
            ELSE IF p \in other THEN FileNode(MemberContent)
            ELSE IF p \in first THEN FileNode(MemberContent)
            ELSE IF p \in second THEN FileNode(SecondContent(shape[p[1]]))
            ELSE IF p \in side \/ (p \in present /\ shape[p[1]].t = "file")
            THEN FileNode(Content("scalar", <<>>))
            ELSE DirNode]
VerifyRoots ==
    {NoFs, FileRoot} \cup {VerifyRootOf(shape, side) :
                    shape \in [{"train", "dev", "test"} -> SplitShapes],
                    side \in SUBSET Sidecars}

\* ------------------------------------------------------------------- state
VARIABLES
    fs,      \* the tree below extract_dir
    zip,     \* the staged archive
    pc,      \* where the running call stands; "idle" before the first
    calls,   \* how many calls were started
    op,      \* the operation the running or last call is
    log,     \* the calls the running or last download_multiwoz made, in
             \* order, each with the exception it ended with ("ok": none)
    input,   \* what the environment answered the running or last call: the
             \* fallback source, or the files glob listed first
    ret,     \* what the last is_valid_dataset returned
    stats,   \* what the last verify_dataset returned
    result,  \* how the last call ended
    fs0,     \* fs when the running or last call started
    zip0,    \* zip when the running or last call started
    prev,    \* how the call before the running or last one ended
    resp     \* what requests.get answered the running or last call

vars == <<fs, zip, pc, calls, op, log, input, ret, stats, result, fs0, zip0, prev, resp>>

NoResult == [status |-> "none", exc |-> ""]
Returned == [status |-> "returned", exc |-> ""]
Raised(e) == [status |-> "raised", exc |-> e]
Outcome(err) == IF err = "ok" THEN Returned ELSE Raised(err)
Called(call, err) == [call |-> call, err |-> err]
NoResponse == Response("none", <<>>, 0)

\* Before the first call, whatever the filesystem holds.
Fresh ==
    /\ pc = "idle"
    /\ calls = 0
    /\ op = ""
    /\ log = <<>>
    /\ input = NoSource
    /\ ret = FALSE
    /\ stats = NoStats
    /\ result = NoResult
    /\ fs0 = fs
    /\ zip0 = zip
    /\ prev = NoResult
    /\ resp = NoResponse

Init ==
    /\ fs \in InitRoots
    /\ zip \in InitZips
    /\ Fresh

\* --------------------------------------------------------- download_multiwoz
\* Enter looking at the staged archive before the cache: a valid extract_dir
\* is returned at once only when no archive is staged.
Enter_StagedFirst ==
    /\ pc \in {"idle", "done"}
    /\ calls < MaxCalls
    /\ calls' = calls + 1
    /\ op' = "download_multiwoz"
    /\ log' = <<>>
    /\ input' = NoSource
    /\ fs0' = fs
    /\ zip0' = zip
    /\ prev' = result
    /\ resp' = NoResponse
    /\ UNCHANGED <<fs, zip, ret, stats>>
    /\ IF ZipExists(zip)
       THEN pc' = "extract" /\ result' = NoResult
       ELSE IF Exists(fs, Root) /\ is_valid_dataset(fs)
       THEN pc' = "done" /\ result' = Returned
       ELSE pc' = "fetch" /\ result' = NoResult

\* Enter without the test of line 63: an invalid extract_dir always leads
\* to download_file, staged archive or not.
Enter_AlwaysFetches ==
    /\ pc \in {"idle", "done"}
    /\ calls < MaxCalls
    /\ calls' = calls + 1
    /\ op' = "download_multiwoz"
    /\ log' = <<>>
    /\ input' = NoSource
    /\ fs0' = fs
    /\ zip0' = zip
    /\ prev' = result
    /\ resp' = NoResponse
    /\ UNCHANGED <<fs, zip, ret, stats>>
    /\ IF Exists(fs, Root) /\ is_valid_dataset(fs)
       THEN pc' = "done" /\ result' = Returned
       ELSE pc' = "fetch" /\ result' = NoResult

\* Lines 53-63: the call starts; a valid extract_dir is returned at once,
\* and otherwise the staged archive decides between fetching and extracting.
Enter ==
    /\ pc \in {"idle", "done"}
    /\ calls < MaxCalls
    /\ calls' = calls + 1
    /\ op' = "download_multiwoz"
    /\ log' = <<>>
    /\ input' = NoSource
    /\ fs0' = fs
    /\ zip0' = zip
    /\ prev' = result
    /\ resp' = NoResponse
    /\ UNCHANGED <<fs, zip, ret, stats>>
    /\ IF Exists(fs, Root) /\ is_valid_dataset(fs)
       THEN pc' = "done" /\ result' = Returned
       ELSE /\ result' = NoResult
            /\ pc' = IF ~ZipExists(zip) THEN "fetch" ELSE "extract"

\* Lines 64-68: download_file runs; its exception is caught.
Fetch ==
    /\ pc = "fetch"
    /\ \E r \in Responses :
        LET d == download_file(r, zip)
        IN /\ zip' = d.zip
           /\ log' = Append(log, Called("download_file", d.err))
           /\ pc' = IF d.err = "ok" THEN "extract" ELSE "fallback"
           /\ resp' = r
    /\ UNCHANGED <<fs, calls, op, input, ret, stats, result, fs0, zip0, prev>>

\* Fallback without the return of line 70: after a successful fallback the
\* call goes on to extract_zip.
Fallback_FallsThrough ==
    /\ pc = "fallback"
    /\ \E src \in Sources :
        LET h == download_from_huggingface(src, fs)
        IN /\ fs' = h.fs
           /\ input' = src
           /\ log' = Append(log, Called("download_from_huggingface", h.err))
           /\ result' = IF h.err = "ok" THEN result ELSE Raised(h.err)
           /\ pc' = IF h.err = "ok" THEN "extract" ELSE "done"
    /\ UNCHANGED <<zip, calls, op, ret, stats, fs0, zip0, prev, resp>>

\* Fallback with the fallback's exception swallowed: extract_dir is returned
\* whatever download_from_huggingface did.
Fallback_Swallows ==
    /\ pc = "fallback"
    /\ \E src \in Sources :
        LET h == download_from_huggingface(src, fs)
        IN /\ fs' = h.fs
           /\ input' = src
           /\ log' = Append(log, Called("download_from_huggingface", h.err))
    /\ result' = Returned
    /\ pc' = "done"
    /\ UNCHANGED <<zip, calls, op, ret, stats, fs0, zip0, prev, resp>>

\* Lines 69-70: the fallback runs and its outcome is the call's.
Fallback ==
    /\ pc = "fallback"
    /\ \E src \in Sources :
        LET h == download_from_huggingface(src, fs)
        IN /\ fs' = h.fs
           /\ input' = src
           /\ log' = Append(log, Called("download_from_huggingface", h.err))
           /\ result' = Outcome(h.err)
    /\ pc' = "done"
    /\ UNCHANGED <<zip, calls, op, ret, stats, fs0, zip0, prev, resp>>

\* Extract inside the try block of line 64: an exception of extract_zip is
\* caught like one of download_file and the fallback runs.
Extract_FallsBack ==
    /\ pc = "extract"
    /\ LET x == extract_zip(zip, fs)
       IN /\ fs' = x.fs
          /\ log' = Append(log, Called("extract_zip", x.err))
          /\ pc' = IF x.err = "ok" THEN "cleanup" ELSE "fallback"
    /\ UNCHANGED <<zip, calls, op, input, ret, stats, result, fs0, zip0, prev, resp>>

\* Line 73: extract_zip runs; its exception leaves the call.
Extract ==
    /\ pc = "extract"
    /\ LET x == extract_zip(zip, fs)
       IN /\ fs' = x.fs
          /\ log' = Append(log, Called("extract_zip", x.err))
          /\ pc' = IF x.err = "ok" THEN "cleanup" ELSE "done"
          /\ result' = IF x.err = "ok" THEN result ELSE Raised(x.err)
    /\ UNCHANGED <<zip, calls, op, input, ret, stats, fs0, zip0, prev, resp>>

\* Cleanup without the unlink of line 77.
Cleanup_KeepsArchive ==
    /\ pc = "cleanup"
    /\ pc' = "done"
    /\ result' = Returned
    /\ UNCHANGED <<fs, zip, log, calls, op, input, ret, stats, fs0, zip0, prev, resp>>

\* Lines 75-80: the staged archive is unlinked and extract_dir returned.
Cleanup ==
    /\ pc = "cleanup"
    /\ zip' = IF ZipExists(zip) THEN NoZip ELSE zip
    /\ log' = IF ZipExists(zip) THEN Append(log, Called("unlink", "ok")) ELSE log
    /\ pc' = "done"
    /\ result' = Returned
    /\ UNCHANGED <<fs, calls, op, input, ret, stats, fs0, zip0, prev, resp>>

Next == Enter \/ Fetch \/ Fallback \/ Extract \/ Cleanup

\* Any number of download_multiwoz calls, one after the other.
Spec == Init /\ [][Next]_vars

\* ------------------------------------------------- the operations on their own
\* One operation applied to a drawn filesystem: the frame every direct call
\* shares.
Direct(name) ==
    /\ pc = "idle"
    /\ pc' = "done"
    /\ calls' = calls + 1
    /\ op' = name
    /\ fs0' = fs
    /\ zip0' = zip
    /\ log' = <<>>
    /\ UNCHANGED prev

CallIsValid ==
    /\ Direct("is_valid_dataset")
    /\ ret' = is_valid_dataset(fs)
    /\ result' = Returned
    /\ UNCHANGED <<fs, zip, input, stats, resp>>

CallExtractZip ==
    /\ Direct("extract_zip")
    /\ LET x == extract_zip(zip, fs)
       IN fs' = x.fs /\ result' = Outcome(x.err)
    /\ UNCHANGED <<zip, input, ret, stats, resp>>

CallFallback ==
    /\ Direct("download_from_huggingface")
    /\ \E src \in Sources :
        LET h == download_from_huggingface(src, fs)
        IN fs' = h.fs /\ input' = src /\ result' = Outcome(h.err)
    /\ UNCHANGED <<zip, ret, stats, resp>>

NextOps == CallIsValid \/ CallExtractZip \/ CallFallback

\* One call of one operation from a drawn filesystem.
SpecOps == Init /\ [][NextOps]_vars

CallVerify ==
    /\ Direct("verify_dataset")
    /\ \E first \in FirstChoices(fs) :
        \E listing \in Listings(SampledServices(fs, first)) :
            LET v == verify_dataset(fs, first, listing)
            IN input' = first /\ stats' = v.stats /\ result' = Outcome(v.err)
    /\ UNCHANGED <<fs, zip, ret, resp>>

InitVerify ==
    /\ fs \in VerifyRoots
    /\ zip = NoZip
    /\ Fresh

\* One call of verify_dataset on a drawn dataset root.
SpecVerify == InitVerify /\ [][CallVerify]_vars

CallDownloadFile ==
    /\ Direct("download_file")
    /\ \E r \in Responses :
        LET d == download_file(r, zip)
        IN zip' = d.zip /\ resp' = r /\ result' = Outcome(d.err)
    /\ UNCHANGED <<fs, input, ret, stats>>

\* The destinations download_file can find: none, a file, a directory.
InitFetch ==
    /\ fs \in {NoFs, RootOf([i \in 1..Len(SPLITS) |-> "dir"])}
    /\ zip \in InitZips \cup {[k |-> "dir", bytes |-> <<>>]}
    /\ Fresh

\* One call of download_file on a drawn destination.
SpecFetch == InitFetch /\ [][CallDownloadFile]_vars

\* -------------------------------------------------- the operations in sequence
\* The archives the primary source serves in the sequences: the three splits wrapped in data/; train
\* flat and wrapped, which collide; dev with a member whose CRC fails, short
\* or long.
SeqArchives ==
    {PickSeq({4, 5, 6}, 1), PickSeq({1, 4}, 1), PickSeq({2, 8}, 1), PickSeq({2, 9}, 1)}
SeqResponses ==
    {Response("ok", Body(a), 0) : a \in SeqArchives}
    \cup {Response("ok", Body(<<>>), 3), Response("http_error", <<>>, 0)}
\* The fallback sources of the sequences: unreachable, whole, without its
\* validation partition, with an unserialisable validation record.
SeqSources ==
    {Source("error", [h \in {} |-> <<>>])}
    \cup {Source("ok", [h \in P |-> Partition(h, 1, h = b)]) :
            P \in {HfNames, HfNames \ {"validation"}}, b \in {"validation", "none"}}

\* The frame of a direct call made after any other call.
Again(name) ==
    /\ pc \in {"idle", "done"}
    /\ calls < MaxCalls
    /\ pc' = "done"
    /\ calls' = calls + 1
    /\ op' = name
    /\ fs0' = fs
    /\ zip0' = zip
    /\ log' = <<>>
    /\ prev' = result
    /\ resp' = NoResponse

SeqFetch == Fetch /\ resp' \in SeqResponses
SeqFallback == Fallback /\ input' \in SeqSources

SeqIsValid ==
    /\ Again("is_valid_dataset")
    /\ ret' = is_valid_dataset(fs)
    /\ result' = Returned
    /\ UNCHANGED <<fs, zip, input, stats>>

SeqExtractZip ==
    /\ Again("extract_zip")
    /\ LET x == extract_zip(zip, fs)
       IN fs' = x.fs /\ result' = Outcome(x.err)
    /\ UNCHANGED <<zip, input, ret, stats>>

SeqHuggingface ==
    /\ Again("download_from_huggingface")
    /\ \E src \in SeqSources :
        LET h == download_from_huggingface(src, fs)
        IN fs' = h.fs /\ input' = src /\ result' = Outcome(h.err)
    /\ UNCHANGED <<zip, ret, stats>>

SeqVerify ==
    /\ Again("verify_dataset")
    /\ \E first \in FirstChoices(fs) :
        \E listing \in Listings(SampledServices(fs, first)) :
            LET v == verify_dataset(fs, first, listing)
            IN input' = first /\ stats' = v.stats /\ result' = Outcome(v.err)
    /\ UNCHANGED <<fs, zip, ret>>

InitSeq ==
    /\ fs \in InitRoots
    /\ zip \in InitZips
    /\ Fresh

NextSeq ==
    \/ Enter \/ SeqFetch \/ SeqFallback \/ Extract \/ Cleanup
    \/ SeqIsValid \/ SeqExtractZip \/ SeqHuggingface \/ SeqVerify

\* Any calls of any of the operations, one after the other.
SpecSeq == InitSeq /\ [][NextSeq]_vars
\* ------------------------------------------------------------------ claims
Dm == op = "download_multiwoz"
InLog(call) == \E i \in 1..Len(log) : log[i].call = call
Extracted == \E i \in 1..Len(log) : log[i] = Called("extract_zip", "ok")
ExtractFailed == \E i \in 1..Len(log) : log[i].call = "extract_zip" /\ log[i].err # "ok"
FetchFailed == Len(log) >= 1 /\ log[1].call = "download_file" /\ log[1].err # "ok"
IsValidRoot(f) == Exists(f, Root) /\ is_valid_dataset(f)

\* C1: every download_multiwoz that returns normally returns a root for
\* which is_valid_dataset is true at the moment of return.
C1_ReturnedRootIsValid ==
    (Dm /\ pc = "done" /\ result.status = "returned") => IsValidRoot(fs)

\* C2: a download_multiwoz invoked on a root that satisfies is_valid_dataset
\* returns at once: it calls neither download_file nor
\* download_from_huggingface nor extract_zip and leaves the tree and the
\* staged archive as they were; so does a second invocation after one that
\* left the root valid.
C2_CacheHitTouchesNothing ==
    (Dm /\ IsValidRoot(fs0)) =>
        /\ pc = "done"
        /\ result = Returned
        /\ log = <<>>
        /\ fs = fs0
        /\ zip = zip0
\* A second invocation that found the root valid and an archive staged.
C2_Witness ==
    Dm /\ calls = 2 /\ pc = "done" /\ IsValidRoot(fs0) /\ ZipExists(zip0) /\ log = <<>>

\* C3: is_valid_dataset returns true iff train, dev and test each exist as a
\* subdirectory of the root; a regular file of that name does not count.
C3_ValidIffThreeSubdirectories ==
    (op = "is_valid_dataset" /\ pc = "done") =>
        (ret <=> \A i \in 1..Len(SPLITS) : IsDir(fs, <<SPLITS[i]>>))

\* C4: when download_file fails, download_from_huggingface is called exactly
\* once, next, and the call ends with it: extract_zip is not called and the
\* staged archive stays as download_file left it.
C4_FetchFailureGoesToFallbackOnly ==
    [][ /\ (pc = "fetch" /\ log'[Len(log')].err # "ok") =>
              (pc' = "fallback" /\ Len(log') = 1)
        /\ (pc = "fallback") =>
              /\ pc' = "done"
              /\ zip' = zip
              /\ Len(log') = 2
              /\ log'[1] = log[1]
              /\ log'[2].call = "download_from_huggingface" ]_vars
\* A fetch cut short mid-stream, then a successful fallback: the partial
\* archive is still staged.
C4_Witness ==
    /\ Dm /\ pc = "done" /\ result = Returned
    /\ Len(log) = 2 /\ log[1] = Called("download_file", "ChunkedEncodingError")
    /\ zip = ZipFile(<<ZipHead>>)

\* C5: after a failed fetch the call returns normally iff
\* download_from_huggingface succeeds, and otherwise raises the fallback's
\* exception, never the fetch's.
C5_FallbackOutcomeIsTheCallsOutcome ==
    (Dm /\ pc = "done" /\ FetchFailed) =>
        LET h == download_from_huggingface(input, fs0)
        IN /\ result = Outcome(h.err)
           /\ fs = h.fs
\* An HTTP error status, then a fallback source without its validation
\* partition: KeyError reaches the caller.
C5_Witness ==
    /\ Dm /\ pc = "done"
    /\ Len(log) = 2 /\ log[1] = Called("download_file", "HTTPError")
    /\ result = Raised("KeyError")

\* C6: when data/ holds an entry whose name exists under the target,
\* extract_zip leaves the existing entry as it was, leaves the colliding
\* entry in data/, moves every other entry up and returns normally.
C6_CollisionDoesNotAbort ==
    (op = "extract_zip" /\ pc = "done" /\ IsZip(zip0.bytes)) =>
        LET x == ExtractAll(fs0, Decode(zip0.bytes), 1)
        IN (x.err = "ok" /\ IsDir(x.fs, DataSubdir) /\ Colliding(x.fs) # {}) =>
              /\ result = Returned
              /\ \A q \in Colliding(x.fs) :
                    Exists(fs, q) /\ fs[<<q[2]>>] = x.fs[<<q[2]>>]
              /\ \A q \in Movable(x.fs) :
                    ~Exists(fs, q) /\ fs[<<q[2]>>] = x.fs[q]

\* C7: the staged archive is deleted iff extract_zip returned normally in
\* this call, and only after it did: it is there when extraction has just
\* completed, gone at every normal return through extraction, still there
\* when extraction raised, and untouched when extraction did not succeed.
C7_ArchiveDeletedIffExtracted ==
    Dm =>
        /\ (pc = "cleanup") => (Extracted /\ ZipExists(zip))
        /\ (pc = "done" /\ Extracted) => (~ZipExists(zip) /\ result = Returned)
        /\ ExtractFailed => (ZipExists(zip) /\ result.status = "raised")
        /\ (~Extracted /\ ZipExists(zip0)) => zip = zip0
        /\ (~Extracted /\ Len(log) >= 1 /\ log[1] = Called("download_file", "ok")) =>
              ZipExists(zip)
\* An archive fetched, extracted and deleted.
C7_Witness ==
    /\ Dm /\ pc = "done" /\ result = Returned
    /\ Len(log) = 3 /\ log[1] = Called("download_file", "ok") /\ Extracted
    /\ ~ZipExists(zip0) /\ ~ZipExists(zip)

\* C8: when extract_zip raises, whether the archive was just fetched or was
\* already staged, its exception reaches the caller and
\* download_from_huggingface is not called.
C8_ExtractionFailureIsFatal ==
    Dm => \A i \in 1..Len(log) :
        (log[i].call = "extract_zip" /\ log[i].err # "ok") =>
            /\ pc = "done"
            /\ i = Len(log)
            /\ result = Raised(log[i].err)
            /\ log[i].err = extract_zip(zip, fs0).err
            /\ ~InLog("download_from_huggingface")
\* A freshly fetched archive whose extraction raises.
C8_Witness ==
    /\ Dm /\ pc = "done" /\ result.status = "raised"
    /\ Len(log) = 2 /\ log[1] = Called("download_file", "ok")
    /\ log[2].call = "extract_zip"

\* C9: verify_dataset never raises, whatever the sampled dialogue files hold.
C9_VerifyNeverRaises ==
    (op = "verify_dataset" /\ pc = "done") => result = Returned

\* C10: after a successful download_from_huggingface the root holds
\* train/dialogues_001.json, dev/dialogues_001.json and
\* test/dialogues_001.json with exactly the records of the source's train,
\* validation and test partitions, in source order; no validation entry was
\* created; is_valid_dataset holds.
Holds(f, split, recs) ==
    /\ IsDir(f, <<split>>)
    /\ IsFile(f, <<split, DialogueFile>>)
    /\ f[<<split, DialogueFile>>].c = Content("array", recs)
C10_FallbackWritesCanonicalSplits ==
    (op = "download_from_huggingface" /\ pc = "done" /\ result = Returned) =>
        /\ Holds(fs, "train", input.parts["train"])
        /\ Holds(fs, "dev", input.parts["validation"])
        /\ Holds(fs, "test", input.parts["test"])
        /\ ~Exists(fs, <<"validation">>)
        /\ is_valid_dataset(fs)
\* A fallback into a missing extract_dir from a source whose partitions
\* differ in length, train holding two records.
C10_Witness ==
    /\ op = "download_from_huggingface" /\ pc = "done" /\ result = Returned
    /\ ~Exists(fs0, Root)
    /\ Len(input.parts["train"]) = 2
    /\ Len(input.parts["validation"]) = 1
    /\ Len(input.parts["test"]) = 0
    /\ fs[<<"dev", DialogueFile>>].c.items[1].id = <<"validation", 1>>

\* C11: when extractall leaves a directory data/ under the target and no
\* entry of data/ has a name that exists under the target, extract_zip
\* returns normally, every path that was below data/ is at the same path
\* without the leading data, with the same kind and content, the number of
\* files under the target is what extractall left, and data is gone.
C11_FlatteningPreservesContent ==
    (op = "extract_zip" /\ pc = "done" /\ IsZip(zip0.bytes)) =>
        LET x == ExtractAll(fs0, Decode(zip0.bytes), 1)
        IN (x.err = "ok" /\ IsDir(x.fs, DataSubdir) /\ Colliding(x.fs) = {}) =>
              /\ result = Returned
              /\ \A q \in Subtree(x.fs, DataSubdir) \ {DataSubdir} :
                    Exists(fs, Tail(q)) /\ fs[Tail(q)] = x.fs[q]
              /\ \A p \in DOMAIN x.fs :
                    ~IsPrefix(DataSubdir, p) => (Exists(fs, p) /\ fs[p] = x.fs[p])
              /\ Cardinality(Files(fs)) = Cardinality(Files(x.fs))
              /\ Cardinality(DOMAIN fs) = Cardinality(DOMAIN x.fs) - 1
              /\ ~Exists(fs, DataSubdir)
\* An archive of data/train/... and data/dev/... extracted into a root that
\* holds only test: both splits end up directly under the root.
C11_Witness ==
    /\ op = "extract_zip" /\ pc = "done" /\ result = Returned
    /\ IsZip(zip0.bytes)
    /\ Len(Decode(zip0.bytes)) = 2
    /\ Decode(zip0.bytes)[1].path = <<"data", "train", DialogueFile>>
    /\ Decode(zip0.bytes)[2].path = <<"data", "dev", DialogueFile>>
    /\ DOMAIN fs0 = {Root, <<"test">>}
    /\ IsFile(fs, <<"train", DialogueFile>>)
    /\ IsFile(fs, <<"dev", DialogueFile>>)
    /\ ~Exists(fs, DataSubdir)

\* C12: in every report, the file sampled in a split that has dialogue files
\* is the one whose name is first in lexical order, and total_conversations
\* is the sum, over the splits present, of the length of the JSON array in
\* that file (0 when it does not parse or is no array).
DialogueOrder == <<"dialogues_001.json", "dialogues_002.json">>
LexFirst(f, split) ==
    LET i == CHOOSE j \in 1..Len(DialogueOrder) :
                 /\ Exists(f, <<split, DialogueOrder[j]>>)
                 /\ \A k \in 1..(j - 1) : ~Exists(f, <<split, DialogueOrder[k]>>)
    IN <<split, DialogueOrder[i]>>
ArrayLen(node) ==
    IF node.k = "file" /\ node.c.t = "array" THEN Len(node.c.items) ELSE 0
Contribution(f, split) ==
    IF IsDir(f, <<split>>) /\ GlobDialogues(f, split) # {}
    THEN ArrayLen(f[LexFirst(f, split)]) ELSE 0
C12_SamplesLexicallyFirstFile ==
    (op = "verify_dataset" /\ pc = "done" /\ result = Returned) =>
        /\ \A i \in 1..Len(SPLITS) :
              (IsDir(fs, <<SPLITS[i]>>) /\ GlobDialogues(fs, SPLITS[i]) # {}) =>
                  input[SPLITS[i]] = LexFirst(fs, SPLITS[i])
        /\ stats.total_conversations =
              Contribution(fs, "train") + Contribution(fs, "dev") + Contribution(fs, "test")

\* C13: in every report, sample_services lists no value twice, each value
\* it lists is an element of the services field of the first record of the
\* file sampled in some split that is present, and it is empty when no
\* sampled file's first record has a services field.
FirstRecordServices(f, first, split) ==
    LET node == f[first[split]]
    IN IF IsDir(f, <<split>>) /\ GlobDialogues(f, split) # {}
          /\ node.k = "file" /\ node.c.t = "array" /\ node.c.items # <<>>
          /\ node.c.items[1].e = "obj" /\ node.c.items[1].sk # "absent"
       THEN {node.c.items[1].sv[j] : j \in 1..Len(node.c.items[1].sv)}
       ELSE {}
C13_SampleServicesFromFirstRecords ==
    (op = "verify_dataset" /\ pc = "done" /\ result = Returned) =>
        LET s == stats.sample_services
            allowed == UNION {FirstRecordServices(fs, input, SPLITS[i]) : i \in 1..Len(SPLITS)}
        IN /\ \A i, j \in 1..Len(s) : i # j => s[i] # s[j]
           /\ \A i \in 1..Len(s) : s[i] \in allowed
           /\ (allowed = {}) => s = <<>>
\* Three splits sampled, each file longer than one record: the services of
\* the first records, hotel, train, t and v, are listed, those of the later
\* records are not.
C13_Witness ==
    /\ op = "verify_dataset" /\ pc = "done" /\ result = Returned
    /\ stats.splits_found = SPLITS
    /\ Len(stats.sample_services) = 4
    /\ stats.sample_services[1] = "v"
    /\ stats.total_conversations = 3 * MaxItems

\* C14: a download_multiwoz that finds the root invalid and an archive
\* staged calls neither download_file nor download_from_huggingface, and its
\* first call is extract_zip on the archive as it was staged; download_file
\* is called only when the root is invalid and no archive is staged.
C14_StagedArchiveSkipsFetch ==
    Dm =>
        /\ (~IsValidRoot(fs0) /\ ZipExists(zip0)) =>
              /\ ~InLog("download_file")
              /\ ~InLog("download_from_huggingface")
              /\ pc # "fetch" /\ pc # "fallback"
              /\ (pc = "extract") => (log = <<>> /\ zip = zip0 /\ fs = fs0)
              /\ (pc # "extract") =>
                    (Len(log) >= 1 /\ log[1] = Called("extract_zip", extract_zip(zip0, fs0).err))
        /\ InLog("download_file") => (~IsValidRoot(fs0) /\ ~ZipExists(zip0))
\* A second invocation that finds a cut-short archive staged: it goes
\* straight to extract_zip, which raises.
C14_Witness ==
    /\ Dm /\ calls = 2 /\ pc = "done"
    /\ zip0 = ZipFile(<<ZipHead>>)
    /\ ~IsValidRoot(fs0)
    /\ log = <<Called("extract_zip", "BadZipFile")>>

\* C15: a download_multiwoz made after one that raised, while the primary
\* source answers with a whole archive of the three splits and the
\* fallback source has its three partitions, returns normally a root for
\* which is_valid_dataset is true.
HealthyResponse(r) ==
    LET d == download_file(r, NoZip)
        x == extract_zip(d.zip, NoFs)
    IN d.err = "ok" /\ x.err = "ok" /\ IsValidRoot(x.fs)
HealthySource(src) ==
    LET h == download_from_huggingface(src, NoFs)
    IN h.err = "ok" /\ IsValidRoot(h.fs)
C15_ReinvocationRecovers ==
    ( /\ Dm /\ pc = "done"
      /\ prev.status = "raised"
      /\ InLog("download_file") => HealthyResponse(resp)
      /\ InLog("download_from_huggingface") => HealthySource(input) ) =>
        (result = Returned /\ IsValidRoot(fs))

\* C16: no step of any operation deletes or renames extract_dir or an entry
\* outside data/: each stays, directory or file as it was, so a root for
\* which is_valid_dataset is true stays one; an entry that goes away is the
\* directory data, or an entry below it that is now at the same path
\* without the leading data; the staged archive goes away only in the
\* cleanup after a successful extraction.
C16_ValidityIsStable ==
    [][ /\ \A p \in DOMAIN fs :
              ~IsPrefix(DataSubdir, p) => (Exists(fs', p) /\ fs'[p].k = fs[p].k)
        /\ \A p \in DOMAIN fs \ DOMAIN fs' :
              \/ p = DataSubdir /\ IsDir(fs, p)
              \/ IsPrefix(DataSubdir, p) /\ Exists(fs', Tail(p)) /\ fs'[Tail(p)] = fs[p]
        /\ IsValidRoot(fs) => IsValidRoot(fs')
        /\ (ZipExists(zip) /\ ~ZipExists(zip')) => (pc = "cleanup" /\ Extracted)
      ]_vars
\* A valid root written by the fallback, then an archive extracted over it
\* whose wrapped train collides: extract_zip raised, data/ is left behind
\* and the root is still valid.
C16_Witness ==
    /\ op = "extract_zip" /\ pc = "done" /\ calls = 2
    /\ result = Raised("OSError: Directory not empty")
    /\ IsValidRoot(fs0) /\ IsValidRoot(fs)
    /\ IsFile(fs, <<"dev", DialogueFile>>)
    /\ fs[<<"dev", DialogueFile>>].c.items # <<>>
    /\ fs[<<"dev", DialogueFile>>].c.items[1].id = <<"validation", 1>>
    /\ IsFile(fs, <<"data", "train", DialogueFile>>)

\* C17: download_file raises on an error status, or when the request itself
\* fails, with the destination as it was; when the stream breaks it raises
\* and the destination is a file holding exactly the non-empty chunks
\* received before the break, in order; a destination that was there is
\* still there after any failure; on success the destination holds every
\* non-empty chunk received, in order.
NonEmpty(chunks) == SelectSeq(chunks, LAMBDA c : c # EmptyChunk)
C17_DownloadFileFailureLeavesPartialFile ==
    (op = "download_file" /\ pc = "done") =>
        /\ (resp.status \in {"http_error", "conn_error"}) =>
              (result.status = "raised" /\ zip = zip0)
        /\ (resp.status = "ok" /\ zip0.k # "dir" /\ resp.failAt > 0) =>
              /\ result.status = "raised"
              /\ zip = ZipFile(NonEmpty(SubSeq(resp.chunks, 1, resp.failAt - 1)))
        /\ (resp.status = "ok" /\ zip0.k # "dir" /\ resp.failAt = 0) =>
              /\ result = Returned
              /\ zip = ZipFile(NonEmpty(resp.chunks))
        /\ (result.status = "raised" /\ ZipExists(zip0)) => ZipExists(zip)
        /\ fs = fs0
\* The stream breaks after the first bytes while an older whole archive is
\* at the destination: the destination now holds those bytes only.
C17_Witness ==
    /\ op = "download_file" /\ pc = "done"
    /\ result = Raised("ChunkedEncodingError")
    /\ IsZip(zip0.bytes) /\ Len(Decode(zip0.bytes)) = MaxMembers
    /\ resp.failAt = 3
    /\ zip = ZipFile(<<ZipHead>>)

\* C18: in every report, splits_found lists the expected splits that are
\* directories under the root, in the order train, dev, test;
\* total_dialogue_files is the number of entries named dialogues_*.json in
\* those directories; has_dialog_acts and has_schema say whether
\* dialog_acts.json and schema.json exist at the root; and verify_dataset,
\* returning or raising, leaves the disk as it was.
RECURSIVE DirSplits(_, _)
DirSplits(f, i) ==
    IF i > Len(SPLITS) THEN <<>>
    ELSE (IF IsDir(f, <<SPLITS[i]>>) THEN <<SPLITS[i]>> ELSE <<>>) \o DirSplits(f, i + 1)
DialogueEntries(f) ==
    {p \in DOMAIN f : Len(p) = 2 /\ IsDir(f, <<p[1]>>)
                       /\ p[1] \in {SPLITS[i] : i \in 1..Len(SPLITS)}
                       /\ p[2] \in DialogueNames}
C18_ReportDescribesTheDisk ==
    (op = "verify_dataset" /\ pc = "done") =>
        /\ fs = fs0 /\ zip = zip0
        /\ (result = Returned) =>
              /\ stats.splits_found = DirSplits(fs0, 1)
              /\ stats.total_dialogue_files = Cardinality(DialogueEntries(fs0))
              /\ stats.has_dialog_acts <=> Exists(fs0, <<"dialog_acts.json">>)
              /\ stats.has_schema <=> Exists(fs0, <<"schema.json">>)
\* train is a regular file, dev holds two dialogue files, test only a file
\* that is no dialogue file, and of the sidecars only schema.json is there.
C18_Witness ==
    /\ op = "verify_dataset" /\ pc = "done" /\ result = Returned
    /\ IsFile(fs0, <<"train">>)
    /\ Exists(fs0, <<"test", OtherFile>>)
    /\ stats.splits_found = <<"dev", "test">>
    /\ stats.total_dialogue_files = 2
    /\ stats.has_schema /\ ~stats.has_dialog_acts
====
